---- MODULE Spec2Model ----
(***************************************************************************)
(* A model of the two-tier chat backend.                                   *)
(*                                                                         *)
(*   src/database/db_server.py  the Data Service: Flask handlers over the  *)
(*                              PostgreSQL tables messages and users       *)
(*   src/backend/app.py         the Gateway: validates field presence and  *)
(*                              forwards to the Data Service over HTTP     *)
(*   src/database/crud.py       the same insert and fetch over the SQLite  *)
(*                              file messages.db, as plain functions       *)
(*                                                                         *)
(* One action is one HTTP request handled from start to finish.  The       *)
(* handlers are written as operators from (request, environment, store)    *)
(* to an outcome (status, body, new store), so that the Gateway actions    *)
(* can call the Data Service handlers the way the code does over HTTP.     *)
(***************************************************************************)
EXTENDS Integers, Sequences, FiniteSets, TLC

VARIABLES
    messages,   \* table messages: a set of rows (message_id is the primary key)
    users,      \* table users: a set of rows (user_id is the primary key)
    seq,        \* last value handed out by the SERIAL sequence of message_id
    now,        \* the store's clock (CURRENT_TIMESTAMP of the last insert)
    resp,       \* the response the client is reading: tier, op, status, body
    returned,   \* history: message_ids returned by successful inserts, in order
    deleted,    \* history: message_ids removed by successful deletes
    lite,       \* rows of the messages table of messages.db (crud.py)
    liteSeq,    \* last value AUTOINCREMENT of messages.db handed out
    liteReturned, \* history: message_ids returned by crud.py's inserts, in order
    engine,     \* which data layer this deployment runs, see Engines
    thread      \* the Data Service's request threads, see SpecThreads

vars == <<messages, users, seq, now, resp, returned, deleted,
          lite, liteSeq, liteReturned, engine, thread>>

\* The repository holds two data layers, and nothing runs both: db_server.py,
\* the Data Service on PostgreSQL that the Gateway calls, and crud.py, the
\* same two message operations on the SQLite file messages.db.
Engines == {"postgresql", "sqlite"}

----------------------------------------------------------------------------
(* Bounds and input alphabets *)

\* number of values the message_id sequence may hand out
MaxInserts == 2

\* the identities that exchange messages
Names == {"a", "b"}

\* identities a request may carry ("" is the empty string)
Ids == Names \union {""}

\* message texts a request may carry
Texts == {"", "x"}

\* message_id values a request may carry: 0 (falsy, never handed out) and
\* the ids the sequence can hand out
MsgIds == 0..MaxInserts

UserIds == {"a"}

Passwords == {"p", "q"}

\* how far the clock may advance between two inserts
ClockSteps == {0, 1}

----------------------------------------------------------------------------
(* JSON request bodies: functions from the keys present to their values *)

Restrict(d, K) == [k \in K |-> d[k]]

Payloads(full) == UNION { { Restrict(d, K) : K \in SUBSET DOMAIN d } : d \in full }

\* bodies of POST /db/insert
InsertPayloads == Payloads([sender_id : Names, receiver_id : Names, message_text : Texts])

\* bodies of POST /message
SendPayloads == Payloads([sender_id : Ids, receiver_id : Ids, message_text : Texts])

UpdatePayloads == Payloads([message_id : MsgIds, sender_id : Ids, message_text : Texts])

DeletePayloads == Payloads([message_id : MsgIds, sender_id : Ids])

UserPayloads == Payloads([user_id : UserIds, password : Passwords])

\* query strings of GET /db/fetch and GET /messages
FetchArgs == Payloads([sender_id : Ids, receiver_id : Ids])

\* request.args.get(key): None when the parameter is absent.  None and the
\* empty string are both falsy, and the handlers only test truthiness before
\* use, so None is represented by "".
ArgsGet(args, key) == IF key \in DOMAIN args THEN args[key] ELSE ""

----------------------------------------------------------------------------
(* Responses *)

\* an error text: the fixed wording and the field names it spells out
ErrorText(msg, fields) == [msg |-> msg, fields |-> fields]

ErrorBody(msg, fields) == [error |-> ErrorText(msg, fields)]

\* what a handler hands back: status, JSON body, and the store it leaves
Outcome(status, body, msgs, usrs, s, t) ==
    [status |-> status, body |-> body,
     messages |-> msgs, users |-> usrs, seq |-> s, now |-> t]

\* an outcome that leaves the store as it was
Reply(status, body) == Outcome(status, body, messages, users, seq, now)

InternalError == Reply(500, ErrorBody("Internal Server Error", {}))

----------------------------------------------------------------------------
(* Data Service: src/database/db_server.py *)

\* required_keys - data.keys(); the error joins the missing keys
parse_request_data(data, required_keys) ==
    LET missing_keys == required_keys \ DOMAIN data
    IN  IF missing_keys # {}
        THEN [extracted |-> <<>>, error |-> ErrorText("Missing fields", missing_keys), failed |-> TRUE]
        ELSE [extracted |-> Restrict(data, required_keys), error |-> ErrorText("", {}), failed |-> FALSE]

\* Faulty variant of NextMessageId (sensitivity check of C1): the id is
\* computed from the rows present, MAX(message_id) + 1, not from a sequence.
MaxPlusOneMessageId ==
    IF messages = {} THEN 1
    ELSE 1 + (CHOOSE n \in { m.message_id : m \in messages } :
                \A m \in messages : m.message_id <= n)

\* message_id SERIAL: the value the sequence hands to the next INSERT
NextMessageId == seq + 1

\* POST /db/insert.  dbUp: whether get_db_connection() succeeds.
\* dt: how far CURRENT_TIMESTAMP has moved since the last insert.
db_insert_message(data, dbUp, dt) ==
    LET required_keys == {"sender_id", "receiver_id", "message_text"}
        missing_keys == required_keys \ DOMAIN data
        message_id == NextMessageId
        row == [message_id |-> message_id,
                sender_id |-> data["sender_id"],
                receiver_id |-> data["receiver_id"],
                message_text |-> data["message_text"],
                timestamp |-> now + dt]
    IN  IF missing_keys # {}
        THEN Reply(400, ErrorBody("Missing fields", missing_keys))
        ELSE IF ~dbUp
        THEN InternalError
        ELSE Outcome(201, [message_id |-> message_id, status |-> "success"],
                     messages \union {row}, users, message_id, now + dt)

\* Faulty variant of OwnedRows (sensitivity check of C3): the WHERE clause
\* forgets the sender.
RowsById(message_id, sender_id) ==
    { m \in messages : m.message_id = message_id }

\* SQL: rows WHERE message_id = %s AND sender_id = %s
OwnedRows(message_id, sender_id) ==
    { m \in messages : m.message_id = message_id /\ m.sender_id = sender_id }

\* Faulty variant of SetText (sensitivity check of C2): the UPDATE also
\* refreshes the timestamp column of the rows it rewrites.
SetTextAndTouch(hit, new_text) ==
    { IF m \in hit THEN [m EXCEPT !.message_text = new_text, !.timestamp = now + 1] ELSE m
        : m \in messages }

\* SQL: UPDATE messages SET message_text = %s on the rows hit, then commit
SetText(hit, new_text) ==
    { IF m \in hit THEN [m EXCEPT !.message_text = new_text] ELSE m : m \in messages }

\* Faulty variant of Remove (sensitivity check of C4): the DELETE is never
\* committed, so the rows stay.
RemoveUncommitted(hit) == messages

\* Faulty variant of Remove (sensitivity check of C22): the DELETE names
\* only the sender, so every message of the sender of the rows hit goes.
RemoveBySender(hit) ==
    { m \in messages : \A h \in hit : m.sender_id # h.sender_id }

\* SQL: DELETE FROM messages on the rows hit, then commit
Remove(hit) == messages \ hit

\* Faulty variant of Conversation (sensitivity check of C5): the WHERE
\* clause matches one direction only.
OneWayConversation(a, b) ==
    { m \in messages : m.sender_id = a /\ m.receiver_id = b }

\* SQL: rows WHERE (sender_id = a AND receiver_id = b) OR (sender_id = b AND receiver_id = a)
Conversation(a, b) ==
    { m \in messages : \/ (m.sender_id = a /\ m.receiver_id = b)
                       \/ (m.sender_id = b /\ m.receiver_id = a) }

\* The listings ORDER BY timestamp ASC may produce for a set of rows: every
\* arrangement that is ascending in timestamp (rows of equal timestamp come
\* in an order SQL leaves open).
OrderByTimestamp(rows) ==
    { l \in [1..Cardinality(rows) -> rows] :
        /\ \A i, j \in DOMAIN l : i # j => l[i] # l[j]
        /\ \A i, j \in DOMAIN l : i < j => l[i].timestamp <= l[j].timestamp }

\* datetime.isoformat(): the timestamp rendered as text
isoformat(t) == [iso |-> t]

\* one row as the JSON object of the fetch response
MessageJson(row) ==
    [message_id |-> row.message_id,
     sender_id |-> row.sender_id,
     receiver_id |-> row.receiver_id,
     message_text |-> row.message_text,
     timestamp |-> isoformat(row.timestamp)]

\* Faulty variant of UserRows (sensitivity check of C6): the existence
\* check finds nothing.
NoUserRows(user_id) == {}

\* SQL: rows of users WHERE user_id = %s
UserRows(user_id) == { u \in users : u.user_id = user_id }

\* POST /db/register
register_user(data, dbUp) ==
    LET parsed == parse_request_data(data, {"user_id", "password"})
        user_id == parsed.extracted["user_id"]
        password == parsed.extracted["password"]
    IN  IF parsed.failed
        THEN Reply(400, [error |-> parsed.error])
        ELSE IF ~dbUp
        THEN InternalError
        ELSE IF UserRows(user_id) # {}
        THEN Reply(400, ErrorBody("User already exists", {}))
        ELSE Outcome(201, [status |-> "success", user_id |-> user_id],
                     messages,
                     users \union {[user_id |-> user_id, password |-> password]},
                     seq, now)

\* Faulty variant of UserNotFound (sensitivity check of C7): an unknown
\* user is reported as an HTTP error.
UserNotFound404 == Reply(404, ErrorBody("User not found", {}))

\* login_user, if not row: the answer for a user_id that is not stored
UserNotFound == Reply(200, [user_id |-> FALSE, password |-> FALSE])

\* POST /db/login
login_user(data, dbUp) ==
    LET parsed == parse_request_data(data, {"user_id", "password"})
        user_id == parsed.extracted["user_id"]
        password == parsed.extracted["password"]
    IN  IF parsed.failed
        THEN Reply(400, [error |-> parsed.error])
        ELSE IF ~dbUp
        THEN InternalError
        ELSE IF UserRows(user_id) = {}
        THEN UserNotFound
        ELSE LET row == CHOOSE u \in UserRows(user_id) : TRUE
                 password_match == (row.password = password)
             IN  Reply(200, [user_id |-> TRUE, password |-> password_match])

\* GET /db/fetch.  rows: the listing the SELECT returned.
db_fetch_messages(args, dbUp, rows) ==
    LET sender_id == ArgsGet(args, "sender_id")
        receiver_id == ArgsGet(args, "receiver_id")
    IN  IF sender_id = "" \/ receiver_id = ""
        THEN Reply(400, ErrorBody("sender_id and receiver_id are required",
                                  {"sender_id", "receiver_id"}))
        ELSE IF ~dbUp
        THEN InternalError
        ELSE Reply(200, [messages |-> [i \in DOMAIN rows |-> MessageJson(rows[i])],
                         status |-> "success"])

\* PUT /db/update
update_message(data, dbUp) ==
    LET parsed == parse_request_data(data, {"message_id", "sender_id", "message_text"})
        message_id == parsed.extracted["message_id"]
        sender_id == parsed.extracted["sender_id"]
        new_text == parsed.extracted["message_text"]
        hit == OwnedRows(message_id, sender_id)
    IN  IF parsed.failed
        THEN Reply(400, [error |-> parsed.error])
        ELSE IF ~dbUp
        THEN InternalError
        ELSE IF Cardinality(hit) = 0
        THEN Reply(404, ErrorBody("Message not found or sender mismatch", {}))
        ELSE Outcome(200, [status |-> "success", updated_id |-> message_id],
                     SetText(hit, new_text), users, seq, now)

\* DELETE /db/delete
db_delete_message(data, dbUp) ==
    LET parsed == parse_request_data(data, {"message_id", "sender_id"})
        message_id == parsed.extracted["message_id"]
        sender_id == parsed.extracted["sender_id"]
        hit == OwnedRows(message_id, sender_id)
    IN  IF parsed.failed
        THEN Reply(400, [error |-> parsed.error])
        ELSE IF ~dbUp
        THEN InternalError
        ELSE IF Cardinality(hit) = 0
        THEN Reply(404, ErrorBody("Message not found or sender mismatch", {}))
        ELSE Outcome(200, [status |-> "success", deleted_id |-> message_id],
                     Remove(hit), users, seq, now)

\* GET /db/health
db_health_check(dbUp) ==
    IF dbUp
    THEN Reply(200, [status |-> "healthy", service |-> "Database Server",
                     message_count |-> Cardinality(messages)])
    ELSE Reply(500, [status |-> "unhealthy", service |-> "Database Server",
                     error |-> ErrorText("str(e)", {})])

\* GET /db/test-connection
test_connection(dbUp) ==
    IF dbUp
    THEN Reply(200, [status |-> "success", database |-> "PostgreSQL",
                     version |-> "SELECT version()",
                     message_count |-> Cardinality(messages)])
    ELSE Reply(500, [status |-> "error", database |-> "SQLite (fallback)",
                     error |-> ErrorText("str(e)", {})])

----------------------------------------------------------------------------
(* SQLite access layer: src/database/crud.py *)

\* these functions return a dict with no status code on some paths
NoStatus == 0

\* what a function of crud.py hands back, and the table it leaves
LiteOutcome(status, body, rows, s, t) ==
    [status |-> status, body |-> body, lite |-> rows, liteSeq |-> s, now |-> t]

LiteReply(status, body) == LiteOutcome(status, body, lite, liteSeq, now)

\* message_id INTEGER PRIMARY KEY AUTOINCREMENT: the next rowid
NextRowId == liteSeq + 1

\* insert_message(data).  dbUp: sqlite3.connect and the statements succeed.
\* The except sqlite3.IntegrityError clause has no statement that raises it:
\* every value goes through str() and the key is generated.
crud_insert_message(data, dbUp, dt) ==
    LET required_keys == {"sender_id", "receiver_id", "message_text"}
        missing_keys == required_keys \ DOMAIN data
        message_id == NextRowId
        row == [message_id |-> message_id,
                sender_id |-> data["sender_id"],
                receiver_id |-> data["receiver_id"],
                message_text |-> data["message_text"],
                timestamp |-> now + dt]
    IN  IF missing_keys # {}
        THEN LiteReply(NoStatus, [ok |-> FALSE,
                                  error |-> ErrorText("Missing fields", missing_keys)])
        ELSE IF ~dbUp
        THEN LiteReply(500, ErrorBody("Database error occurred", {}))
        ELSE LiteOutcome(NoStatus, [message_id |-> message_id, status |-> "success"],
                         lite \union {row}, message_id, now + dt)

\* SQL of crud.py: the same WHERE clause over the table of messages.db
LiteConversation(a, b) ==
    { m \in lite : \/ (m.sender_id = a /\ m.receiver_id = b)
                   \/ (m.sender_id = b /\ m.receiver_id = a) }

\* fetch_messages(sender_id, receiver_id).  rows: the listing of the SELECT.
crud_fetch_messages(sender_id, receiver_id, dbUp, rows) ==
    LET listed == [i \in DOMAIN rows |->
                      [message_id |-> rows[i].message_id,
                       sender_id |-> rows[i].sender_id,
                       receiver_id |-> rows[i].receiver_id,
                       message_text |-> rows[i].message_text,
                       timestamp |-> rows[i].timestamp]]
    IN  IF ~dbUp
        THEN LiteReply(500, ErrorBody("Database error occurred", {}))
        ELSE IF DOMAIN listed = {}
        THEN LiteReply(404, ErrorBody("No messages found", {}))
        ELSE LiteReply(200, [messages |-> listed, status |-> "success"])

----------------------------------------------------------------------------
(* Gateway: src/backend/app.py *)

\* the routes the Data Service registers (@app.route)
DbRoutes ==
    { <<"POST", "/db/register">>, <<"POST", "/db/login">>,
      <<"POST", "/db/insert">>, <<"GET", "/db/fetch">>,
      <<"PUT", "/db/update">>, <<"DELETE", "/db/delete">>,
      <<"GET", "/db/health">>, <<"GET", "/db/test-connection">> }

\* what the installed requests library raises when response.json() is given
\* a body that is not JSON: a RequestException (caught as 503) or a plain
\* ValueError (caught as 500), depending on its version
JsonErrors == {"RequestException", "ValueError"}

\* Python truthiness of a field value: 0 and "" are falsy
Falsy(field, v) == IF field = "message_id" THEN v = 0 ELSE v = ""

\* for field in fields: if field not in data or not data[field]
\* the fields failing the check, in list order
Unfilled(data, fields) ==
    SelectSeq(fields, LAMBDA f : f \notin DOMAIN data \/ Falsy(f, data[f]))

Required(field) == Reply(400, ErrorBody("is required", {field}))

ServiceUnavailable == Reply(503, ErrorBody("Database service unavailable", {}))

\* Flask's answer to a request for a URL no @app.route registers: 404 with
\* an HTML page, not a JSON body
NotRouted == Reply(404, [html |-> "Not Found"])

\* what the Data Service answers to the request the Gateway sends it.
\* answer: what the handler registered for the route returns.
DownstreamAnswer(method, path, answer) ==
    IF <<method, path>> \in DbRoutes THEN answer ELSE NotRouted

\* Faulty variant of Forward (sensitivity check of C9): a transport failure
\* is not told apart from any other exception.
ForwardNoTransportClause(method, path, dsUp, jsonErr, answer) ==
    IF ~dsUp
    THEN InternalError
    ELSE IF <<method, path>> \notin DbRoutes
    THEN InternalError
    ELSE answer

\* requests.<method>(DB_SERVER + path, ...) followed by
\* jsonify(response.json()), response.status_code, under the handler's
\* except clauses.  dsUp: whether the Data Service answers at all.
\* answer: what the Data Service's handler for the route returns.
Forward(method, path, dsUp, jsonErr, answer) ==
    IF ~dsUp
    THEN ServiceUnavailable
    ELSE LET response == DownstreamAnswer(method, path, answer)
         IN  IF "html" \in DOMAIN response.body
             THEN IF jsonErr = "RequestException" THEN ServiceUnavailable ELSE InternalError
             ELSE response

REQUIRED_FIELDS == <<"sender_id", "receiver_id", "message_text">>

\* POST /message
send_message(data, dsUp, jsonErr, dbUp, dt) ==
    LET bad == Unfilled(data, REQUIRED_FIELDS)
    IN  IF bad # <<>>
        THEN Required(Head(bad))
        ELSE Forward("POST", "/db/insert", dsUp, jsonErr,
                     db_insert_message(data, dbUp, dt))

\* GET /messages
get_messages(args, dsUp, jsonErr, dbUp, rows) ==
    LET sender_id == ArgsGet(args, "sender_id")
        receiver_id == ArgsGet(args, "receiver_id")
    IN  IF sender_id = "" \/ receiver_id = ""
        THEN Reply(400, ErrorBody("sender_id and receiver_id are required",
                                  {"sender_id", "receiver_id"}))
        ELSE Forward("GET", "/db/fetch", dsUp, jsonErr,
                     db_fetch_messages([sender_id |-> sender_id,
                                        receiver_id |-> receiver_id], dbUp, rows))

\* POST /edit_message
edit_message(data, dsUp, jsonErr, dbUp) ==
    LET required_fields == <<"message_id", "sender_id", "message_text">>
        bad == Unfilled(data, required_fields)
    IN  IF bad # <<>>
        THEN Required(Head(bad))
        ELSE IF Unfilled(data, <<"message_id">>) # <<>>
        THEN Required("message_id")
        ELSE Forward("PUT", "/db/edit", dsUp, jsonErr, update_message(data, dbUp))

\* POST /delete_message
api_delete_message(data, dsUp, jsonErr, dbUp) ==
    IF Unfilled(data, <<"message_id">>) # <<>>
    THEN Required("message_id")
    ELSE Forward("DELETE", "/db/delete", dsUp, jsonErr, db_delete_message(data, dbUp))

\* GET /health
health_check == Reply(200, [status |-> "healthy", service |-> "API Server"])

----------------------------------------------------------------------------
(* Serving a request: install the outcome and record the response *)

\* the threads of the Data Service's server (app.run serves each request in
\* a thread of its own)
Threads == {"t1", "t2"}

\* a thread that is handling no request
IdleThread == [op |-> "none", pc |-> "idle", data |-> <<>>, status |-> 0, fresh |-> FALSE]

NoResponse == [tier |-> "none", op |-> "none", status |-> 0, body |-> <<>>]

\* no request is being answered
Idle == resp = NoResponse

Serve(tier, op, out) ==
    /\ Idle
    /\ engine = "postgresql"
    /\ resp' = [tier |-> tier, op |-> op, status |-> out.status, body |-> out.body]
    /\ messages' = out.messages
    /\ users' = out.users
    /\ seq' = out.seq
    /\ now' = out.now
    /\ UNCHANGED <<lite, liteSeq, liteReturned, engine, thread>>

\* a call of a function of crud.py
ServeLite(op, out) ==
    /\ Idle
    /\ engine = "sqlite"
    /\ resp' = [tier |-> "lite", op |-> op, status |-> out.status, body |-> out.body]
    /\ lite' = out.lite
    /\ liteSeq' = out.liteSeq
    /\ now' = out.now
    /\ liteReturned' = IF "message_id" \in DOMAIN out.body
                       THEN Append(liteReturned, out.body.message_id)
                       ELSE liteReturned
    /\ UNCHANGED <<messages, users, seq, returned, deleted, engine, thread>>

\* histories of what the store's clients were told
Inserted(out) ==
    returned' = IF out.status = 201 THEN Append(returned, out.body.message_id)
                ELSE returned

Deleted(out) ==
    deleted' = IF out.status = 200 THEN deleted \union {out.body.deleted_id}
               ELSE deleted

Init ==
    /\ messages = {}
    /\ users = {}
    /\ seq = 0
    /\ now = 0
    /\ resp = NoResponse
    /\ returned = <<>>
    /\ deleted = {}
    /\ lite = {}
    /\ liteSeq = 0
    /\ liteReturned = <<>>
    /\ engine \in Engines
    /\ thread = [t \in Threads |-> IdleThread]

(* One request with given payload and environment.  dbUp: the store       *)
(* accepts connections.  dsUp: the Data Service answers the Gateway.       *)
(* jsonErr: see JsonErrors.  dt: see ClockSteps.  rows: the listing the    *)
(* SELECT of a fetch returns.                                              *)

Register(data, dbUp) ==
    /\ Serve("db", "register", register_user(data, dbUp))
    /\ UNCHANGED <<returned, deleted>>

Login(data, dbUp) ==
    /\ Serve("db", "login", login_user(data, dbUp))
    /\ UNCHANGED <<returned, deleted>>

Insert(data, dbUp, dt) ==
    /\ seq < MaxInserts
    /\ Serve("db", "insert", db_insert_message(data, dbUp, dt))
    /\ Inserted(db_insert_message(data, dbUp, dt))
    /\ UNCHANGED deleted

Fetch(args, dbUp, rows) ==
    /\ Serve("db", "fetch", db_fetch_messages(args, dbUp, rows))
    /\ UNCHANGED <<returned, deleted>>

Update(data, dbUp) ==
    /\ Serve("db", "update", update_message(data, dbUp))
    /\ UNCHANGED <<returned, deleted>>

Delete(data, dbUp) ==
    /\ Serve("db", "delete", db_delete_message(data, dbUp))
    /\ Deleted(db_delete_message(data, dbUp))
    /\ UNCHANGED returned

Health(dbUp) ==
    /\ Serve("db", "health", db_health_check(dbUp))
    /\ UNCHANGED <<returned, deleted>>

TestConnection(dbUp) ==
    /\ Serve("db", "test-connection", test_connection(dbUp))
    /\ UNCHANGED <<returned, deleted>>

Send(data, dsUp, jsonErr, dbUp, dt) ==
    /\ seq < MaxInserts
    /\ Serve("api", "send", send_message(data, dsUp, jsonErr, dbUp, dt))
    /\ Inserted(send_message(data, dsUp, jsonErr, dbUp, dt))
    /\ UNCHANGED deleted

GetMessages(args, dsUp, jsonErr, dbUp, rows) ==
    /\ Serve("api", "fetch", get_messages(args, dsUp, jsonErr, dbUp, rows))
    /\ UNCHANGED <<returned, deleted>>

Edit(data, dsUp, jsonErr, dbUp) ==
    /\ Serve("api", "edit", edit_message(data, dsUp, jsonErr, dbUp))
    /\ UNCHANGED <<returned, deleted>>

ApiDeleteMessage(data, dsUp, jsonErr, dbUp) ==
    /\ Serve("api", "delete", api_delete_message(data, dsUp, jsonErr, dbUp))
    /\ Deleted(api_delete_message(data, dsUp, jsonErr, dbUp))
    /\ UNCHANGED returned

CrudInsertMessage(data, dbUp, dt) ==
    /\ liteSeq < MaxInserts
    /\ ServeLite("insert", crud_insert_message(data, dbUp, dt))

CrudFetchMessages(sender_id, receiver_id, dbUp, rows) ==
    ServeLite("fetch", crud_fetch_messages(sender_id, receiver_id, dbUp, rows))

\* the listings a fetch of these arguments may get from the store
Listings(args) ==
    OrderByTimestamp(Conversation(ArgsGet(args, "sender_id"), ArgsGet(args, "receiver_id")))

\* The conditions a request to the Gateway can meet.  When the Data Service
\* does not answer, neither the store nor the JSON decoder is consulted, so
\* one condition stands for all of those.
GatewayEnvs ==
    { e \in [dsUp : BOOLEAN, jsonErr : JsonErrors, dbUp : BOOLEAN] :
        e.dsUp \/ (e.jsonErr = "RequestException" /\ e.dbUp) }

(* The actions: a client makes a request of one kind, with any payload,   *)
(* in any condition of the network and the store.                          *)

DbRegister ==
    Idle /\ \E data \in UserPayloads, dbUp \in BOOLEAN : Register(data, dbUp)

DbLogin ==
    Idle /\ \E data \in UserPayloads, dbUp \in BOOLEAN : Login(data, dbUp)

DbInsert ==
    Idle /\ \E data \in InsertPayloads, dbUp \in BOOLEAN, dt \in ClockSteps :
                Insert(data, dbUp, dt)

DbFetch ==
    Idle /\ \E args \in FetchArgs, dbUp \in BOOLEAN : \E rows \in Listings(args) :
                Fetch(args, dbUp, rows)

DbUpdate ==
    Idle /\ \E data \in UpdatePayloads, dbUp \in BOOLEAN : Update(data, dbUp)

DbDelete ==
    Idle /\ \E data \in DeletePayloads, dbUp \in BOOLEAN : Delete(data, dbUp)

DbHealth ==
    Idle /\ \E dbUp \in BOOLEAN : Health(dbUp)

DbTestConnection ==
    Idle /\ \E dbUp \in BOOLEAN : TestConnection(dbUp)

ApiSend ==
    Idle /\ \E data \in SendPayloads, e \in GatewayEnvs, dt \in ClockSteps :
                Send(data, e.dsUp, e.jsonErr, e.dbUp, dt)

ApiFetch ==
    Idle /\ \E args \in FetchArgs, e \in GatewayEnvs : \E rows \in Listings(args) :
                GetMessages(args, e.dsUp, e.jsonErr, e.dbUp, rows)

ApiEdit ==
    Idle /\ \E data \in UpdatePayloads, e \in GatewayEnvs :
                Edit(data, e.dsUp, e.jsonErr, e.dbUp)

ApiDelete ==
    Idle /\ \E data \in DeletePayloads, e \in GatewayEnvs :
                ApiDeleteMessage(data, e.dsUp, e.jsonErr, e.dbUp)

ApiHealth ==
    /\ Serve("api", "health", health_check)
    /\ UNCHANGED <<returned, deleted>>

CrudInsert ==
    Idle /\ engine = "sqlite" /\ \E data \in InsertPayloads, dbUp \in BOOLEAN, dt \in ClockSteps :
                CrudInsertMessage(data, dbUp, dt)

CrudFetch ==
    Idle /\ engine = "sqlite" /\ \E a \in Names, b \in Names, dbUp \in BOOLEAN :
                \E rows \in OrderByTimestamp(LiteConversation(a, b)) :
                    CrudFetchMessages(a, b, dbUp, rows)

\* the client has read the response; the next request can be made
Return ==
    /\ ~Idle
    /\ resp' = NoResponse
    /\ UNCHANGED <<messages, users, seq, now, returned, deleted,
                   lite, liteSeq, liteReturned, engine, thread>>

Next ==
    \/ DbRegister
    \/ DbLogin
    \/ DbInsert
    \/ DbFetch
    \/ DbUpdate
    \/ DbDelete
    \/ DbHealth
    \/ DbTestConnection
    \/ ApiSend
    \/ ApiFetch
    \/ ApiEdit
    \/ ApiDelete
    \/ ApiHealth
    \/ CrudInsert
    \/ CrudFetch
    \/ Return

Spec == Init /\ [][Next]_vars

----------------------------------------------------------------------------
(* Vocabulary of the properties *)

\* the payloads that carry all of these keys
Carrying(payloads, keys) == { d \in payloads : keys \subseteq DOMAIN d }

\* every one of these fields is present with a non-empty value
Filled(data, fields) ==
    \A f \in fields :
        /\ f \in DOMAIN data
        /\ data[f] # (IF f = "message_id" THEN 0 ELSE "")

\* the fields the interface of each operation requires
SendFields == {"sender_id", "receiver_id", "message_text"}
FetchFields == {"sender_id", "receiver_id"}
EditFields == {"message_id", "sender_id", "message_text"}
DeleteFields == {"message_id", "sender_id"}
UserFields == {"user_id", "password"}

\* payloads of the Data Service that carry every required key
FullUpdates == Carrying(UpdatePayloads, EditFields)
FullDeletes == Carrying(DeletePayloads, DeleteFields)
FullUsers == Carrying(UserPayloads, UserFields)

NotFound == [error |-> [msg |-> "Message not found or sender mismatch", fields |-> {}]]

\* a stored message with this id and this sender
Owns(sender_id, message_id) ==
    \E m \in messages : m.message_id = message_id /\ m.sender_id = sender_id

----------------------------------------------------------------------------
(* The Data Service under concurrent requests.  Each request runs in its   *)
(* own thread with its own connection, so its SQL statements and its       *)
(* commit interleave with those of the other thread.  PostgreSQL runs the  *)
(* statements of a connection in one transaction at READ COMMITTED: a      *)
(* statement sees the rows committed before it starts; a writer waits for  *)
(* the open transaction that holds the row or the key it needs.            *)
(* get_db_connection() succeeds throughout.                                *)

\* what the threads of the Data Service do not touch
others == <<resp, lite, liteSeq, liteReturned, engine>>

\* thread t is at this step of this handler
At(t, op, pc) == thread[t].op = op /\ thread[t].pc = pc

\* thread t finishes its request with this status
Finish(t, status) ==
    thread' = [thread EXCEPT ![t].pc = "done", ![t].status = status]

\* thread t moves to the next step of its handler
Goto(t, pc) == thread' = [thread EXCEPT ![t].pc = pc]

\* another connection has inserted this user_id and not yet committed
KeyPending(t, user_id) ==
    \E o \in Threads \ {t} :
        At(o, "register", "commit") /\ thread[o].data["user_id"] = user_id

\* Faulty variant of UniqueViolation (sensitivity check of C14): the users
\* table has no primary key.
NoPrimaryKey(user_id) == FALSE

\* user_id TEXT PRIMARY KEY: an INSERT of a stored user_id is refused
UniqueViolation(user_id) == UserRows(user_id) # {}

\* Faulty variant of RowLocked (sensitivity check of C19): a DELETE does
\* not wait for the open transaction that deleted the row.
NoRowLock(t, hit) == FALSE

\* another connection has deleted one of these rows and not yet committed
RowLocked(t, hit) ==
    \E o \in Threads \ {t} :
        /\ At(o, "delete", "commit")
        /\ \E m \in hit : m.message_id = thread[o].data["message_id"]

\* a thread takes a register request: parse_request_data passes
AcceptRegister(t, data) ==
    /\ thread[t] = IdleThread
    /\ thread' = [thread EXCEPT ![t] =
                     [op |-> "register", pc |-> "select", data |-> data, status |-> 0,
                      fresh |-> UserRows(data["user_id"]) = {}]]
    /\ UNCHANGED <<messages, users, seq, now, returned, deleted, others>>

\* SELECT user_id FROM users WHERE user_id = %s; if cursor.fetchone()
RegisterSelect(t) ==
    /\ At(t, "register", "select")
    /\ IF UserRows(thread[t].data["user_id"]) # {}
       THEN Finish(t, 400)
       ELSE Goto(t, "insert")
    /\ UNCHANGED <<messages, users, seq, now, returned, deleted, others>>

\* INSERT INTO users; a unique violation raises, and except Exception
\* answers 500
RegisterInsert(t) ==
    /\ At(t, "register", "insert")
    /\ ~KeyPending(t, thread[t].data["user_id"])
    /\ IF UniqueViolation(thread[t].data["user_id"])
       THEN Finish(t, 500)
       ELSE Goto(t, "commit")
    /\ UNCHANGED <<messages, users, seq, now, returned, deleted, others>>

\* conn.commit(); return 201
RegisterCommit(t) ==
    /\ At(t, "register", "commit")
    /\ users' = users \union {[user_id |-> thread[t].data["user_id"],
                               password |-> thread[t].data["password"]]}
    /\ Finish(t, 201)
    /\ UNCHANGED <<messages, seq, now, returned, deleted, others>>

\* a thread takes a delete request: parse_request_data passes
AcceptDelete(t, data) ==
    /\ thread[t] = IdleThread
    /\ thread' = [thread EXCEPT ![t] =
                     [op |-> "delete", pc |-> "delete", data |-> data, status |-> 0,
                      fresh |-> OwnedRows(data["message_id"], data["sender_id"]) # {}]]
    /\ UNCHANGED <<messages, users, seq, now, returned, deleted, others>>

\* DELETE FROM messages WHERE message_id = %s AND sender_id = %s;
\* if cursor.rowcount == 0: return 404
DeleteExecute(t) ==
    LET hit == OwnedRows(thread[t].data["message_id"], thread[t].data["sender_id"])
    IN  /\ At(t, "delete", "delete")
        /\ ~RowLocked(t, hit)
        /\ IF Cardinality(hit) = 0
           THEN Finish(t, 404)
           ELSE Goto(t, "commit")
        /\ UNCHANGED <<messages, users, seq, now, returned, deleted, others>>

\* conn.commit(); return 200
DeleteCommit(t) ==
    LET message_id == thread[t].data["message_id"]
        hit == { m \in messages : m.message_id = message_id }
    IN  /\ At(t, "delete", "commit")
        /\ messages' = Remove(hit)
        /\ deleted' = deleted \union {message_id}
        /\ Finish(t, 200)
        /\ UNCHANGED <<users, seq, now, returned, others>>

\* a thread handles an insert request: its one INSERT shows at its commit
ThreadInsert(t, data, dt) ==
    LET out == db_insert_message(data, TRUE, dt)
    IN  /\ thread[t] = IdleThread
        /\ seq < MaxInserts
        /\ thread' = [thread EXCEPT ![t] =
                         [op |-> "insert", pc |-> "done", data |-> data,
                          status |-> out.status, fresh |-> TRUE]]
        /\ messages' = out.messages
        /\ seq' = out.seq
        /\ now' = out.now
        /\ returned' = Append(returned, out.body.message_id)
        /\ UNCHANGED <<users, deleted, others>>

\* the client has the response; the thread is free again
Respond(t) ==
    /\ thread[t].pc = "done"
    /\ thread' = [thread EXCEPT ![t] = IdleThread]
    /\ UNCHANGED <<messages, users, seq, now, returned, deleted, others>>

\* the requests the threads take: every required field present and filled;
\* the messages inserted differ in their sender, whom a delete must name
ThreadRegisters == Carrying(UserPayloads, UserFields)
ThreadDeletes == { d \in DeletePayloads : Filled(d, DeleteFields) }
ThreadInserts ==
    { d \in InsertPayloads :
        Filled(d, SendFields) /\ d["receiver_id"] = "b" /\ d["message_text"] = "x" }

TakeRegister == \E t \in Threads, data \in ThreadRegisters : AcceptRegister(t, data)
TakeDelete == \E t \in Threads, data \in ThreadDeletes : AcceptDelete(t, data)
TakeInsert ==
    \E t \in Threads, data \in ThreadInserts, dt \in ClockSteps : ThreadInsert(t, data, dt)
StepRegisterSelect == \E t \in Threads : RegisterSelect(t)
StepRegisterInsert == \E t \in Threads : RegisterInsert(t)
StepRegisterCommit == \E t \in Threads : RegisterCommit(t)
StepDeleteExecute == \E t \in Threads : DeleteExecute(t)
StepDeleteCommit == \E t \in Threads : DeleteCommit(t)
StepRespond == \E t \in Threads : Respond(t)

InitThreads == Init /\ engine = "postgresql"

NextThreads ==
    \/ TakeRegister
    \/ TakeDelete
    \/ TakeInsert
    \/ StepRegisterSelect
    \/ StepRegisterInsert
    \/ StepRegisterCommit
    \/ StepDeleteExecute
    \/ StepDeleteCommit
    \/ StepRespond

SpecThreads == InitThreads /\ [][NextThreads]_vars

----------------------------------------------------------------------------
(* C1: every successful insert returns a message_id strictly greater than  *)
(* every message_id returned by an earlier insert, and never one that a    *)
(* delete has removed before; so does every insert of crud.py into its     *)
(* own table.                                                              *)

\* history "after" is history "before" with one id appended, above all of it
Extends(before, after) ==
    /\ Len(after) = Len(before) + 1
    /\ \A i \in DOMAIN before : after[i] = before[i]
    /\ \A i \in DOMAIN before : before[i] < after[Len(after)]

C1_Step ==
    /\ returned' # returned =>
          /\ Extends(returned, returned')
          /\ returned'[Len(returned')] \notin deleted
    /\ liteReturned' # liteReturned => Extends(liteReturned, liteReturned')

C1_InsertIdsIncreaseAndAreNotReused == [][C1_Step]_vars

\* an insert has just returned an id although an earlier id was deleted
C1_Witness ==
    /\ resp.tier \in {"db", "api"}
    /\ resp.op \in {"insert", "send"}
    /\ resp.status = 201
    /\ Len(returned) >= 2
    /\ \E d \in deleted : d < resp.body.message_id

----------------------------------------------------------------------------
(* C2: an update whose (message_id, sender_id) matches a stored message    *)
(* returns 200 with updated_id, sets that message's message_text to the    *)
(* given text, leaves its message_id, sender_id, receiver_id and timestamp *)
(* as they were, and leaves every other message and every user unchanged.  *)
(* (The store is reachable.)                                               *)

\* the table with the text of message message_id replaced, all else kept
WithText(message_id, text) ==
    { IF m.message_id = message_id
      THEN [message_id |-> m.message_id,
            sender_id |-> m.sender_id,
            receiver_id |-> m.receiver_id,
            message_text |-> text,
            timestamp |-> m.timestamp]
      ELSE m : m \in messages }

C2_UpdateByOwner ==
    Idle =>
        \A data \in FullUpdates :
            Owns(data["sender_id"], data["message_id"]) =>
                LET out == update_message(data, TRUE)
                IN  /\ out.status = 200
                    /\ out.body = [status |-> "success", updated_id |-> data["message_id"]]
                    /\ out.messages = WithText(data["message_id"], data["message_text"])
                    /\ out.users = users

\* an update has just succeeded on one of two stored messages, with a user stored
C2_Witness ==
    /\ resp.tier = "db" /\ resp.op = "update" /\ resp.status = 200
    /\ Cardinality(messages) >= 2
    /\ users # {}
    /\ \E m \in messages : m.message_id = resp.body.updated_id

----------------------------------------------------------------------------
(* C3: an update or delete whose message_id is not stored, or is stored    *)
(* with another sender, returns the same 404 "not found or sender          *)
(* mismatch" error in both cases and leaves messages and users unchanged.  *)
(* (The store is reachable.)                                               *)

\* the outcome is the 404 error and the store is as it was
Refused(out) ==
    /\ out.status = 404
    /\ out.body = NotFound
    /\ out.messages = messages
    /\ out.users = users

C3_ForeignOrMissingRejected ==
    Idle =>
        /\ \A data \in FullUpdates :
              ~Owns(data["sender_id"], data["message_id"])
              => Refused(update_message(data, TRUE))
        /\ \A data \in FullDeletes :
              ~Owns(data["sender_id"], data["message_id"])
              => Refused(db_delete_message(data, TRUE))

\* a delete has just been refused with 404 while messages and a user are stored
C3_Witness ==
    /\ resp.tier = "db" /\ resp.op = "delete" /\ resp.status = 404
    /\ resp.body = NotFound
    /\ messages # {}
    /\ users # {}

----------------------------------------------------------------------------
(* C4: after a successful delete of a message, every later fetch (in       *)
(* either argument order, at either tier) omits that message, and another  *)
(* delete of the same message_id returns the 404 not-found error without   *)
(* changing the store.  (The store is reachable.)                          *)

C4_DeletedStaysDeleted ==
    /\ (resp.tier \in {"db", "api"} /\ resp.op = "fetch" /\ resp.status = 200) =>
          \A i \in DOMAIN resp.body.messages :
              resp.body.messages[i].message_id \notin deleted
    /\ Idle =>
          \A data \in FullDeletes :
              data["message_id"] \in deleted => Refused(db_delete_message(data, TRUE))

\* a fetch has just listed a message although another one was deleted before
C4_Witness ==
    /\ resp.tier \in {"db", "api"}
    /\ resp.op = "fetch" /\ resp.status = 200
    /\ deleted # {}
    /\ Len(resp.body.messages) >= 1

----------------------------------------------------------------------------
(* C5: for any store contents and any two identities A and B, fetch(A,B)   *)
(* and fetch(B,A) return the same set of messages, each list in ascending  *)
(* timestamp order.  The fetch of crud.py answers alike in both orders:    *)
(* the same set in ascending order, or the same 404 when there is none.    *)

Range(f) == { f[i] : i \in DOMAIN f }

Ascending(list) ==
    \A i, j \in DOMAIN list : i < j => list[i].timestamp.iso <= list[j].timestamp.iso

LiteAscending(list) ==
    \A i, j \in DOMAIN list : i < j => list[i].timestamp <= list[j].timestamp

C5_FetchIsSymmetric ==
    Idle =>
        \A a \in Names, b \in Names :
            LET ab == [sender_id |-> a, receiver_id |-> b]
                ba == [sender_id |-> b, receiver_id |-> a]
            IN  /\ \A l1 \in Listings(ab), l2 \in Listings(ba) :
                      LET r1 == db_fetch_messages(ab, TRUE, l1)
                          r2 == db_fetch_messages(ba, TRUE, l2)
                      IN  /\ r1.status = 200 /\ r2.status = 200
                          /\ Range(r1.body.messages) = Range(r2.body.messages)
                          /\ Ascending(r1.body.messages)
                          /\ Ascending(r2.body.messages)
                /\ \A l1 \in OrderByTimestamp(LiteConversation(a, b)),
                      l2 \in OrderByTimestamp(LiteConversation(b, a)) :
                      LET c1 == crud_fetch_messages(a, b, TRUE, l1)
                          c2 == crud_fetch_messages(b, a, TRUE, l2)
                      IN  /\ c1.status = c2.status
                          /\ c1.status \in {200, 404}
                          /\ c1.status = 404 => c1.body = c2.body
                          /\ c1.status = 200 =>
                                /\ Range(c1.body.messages) = Range(c2.body.messages)
                                /\ LiteAscending(c1.body.messages)
                                /\ LiteAscending(c2.body.messages)

\* a fetch has just listed a conversation that holds messages of both directions
C5_Witness ==
    /\ resp.tier \in {"db", "api"}
    /\ resp.op = "fetch" /\ resp.status = 200
    /\ \E i, j \in DOMAIN resp.body.messages :
          /\ resp.body.messages[i].sender_id # resp.body.messages[j].sender_id
          /\ resp.body.messages[i].sender_id = resp.body.messages[j].receiver_id

----------------------------------------------------------------------------
(* C6: of two register requests for the same user_id handled one after the *)
(* other, the first returns 201, the second returns 400 "User already      *)
(* exists", and the stored password stays that of the first.  (The store   *)
(* is reachable.)                                                          *)

AlreadyExists == [error |-> [msg |-> "User already exists", fields |-> {}]]

C6_Step ==
    /\ \A u \in users : u \in users'
    /\ (resp'.tier = "db" /\ resp'.op = "register") =>
          \A data \in FullUsers :
              Register(data, TRUE)
              => IF \E u \in users : u.user_id = data["user_id"]
                 THEN /\ resp'.status = 400
                      /\ resp'.body = AlreadyExists
                      /\ users' = users
                 ELSE /\ resp'.status = 201
                      /\ resp'.body = [status |-> "success", user_id |-> data["user_id"]]
                      /\ users' = users \union {[user_id |-> data["user_id"],
                                                 password |-> data["password"]]}

C6_FirstRegistrationWins == [][C6_Step]_vars

\* a register has just been refused because the user is stored
C6_Witness ==
    /\ resp.tier = "db" /\ resp.op = "register" /\ resp.status = 400
    /\ resp.body = AlreadyExists
    /\ users # {}

----------------------------------------------------------------------------
(* C7: a login that carries user_id and password, on a reachable store,    *)
(* returns 200: with user_id=false, password=false when the user_id is not *)
(* stored, and with user_id=true, password=(stored password = given        *)
(* password) when it is.                                                   *)

C7_Step ==
    (resp'.tier = "db" /\ resp'.op = "login") =>
        \A data \in FullUsers :
            Login(data, TRUE)
            => /\ resp'.status = 200
               /\ IF \E u \in users : u.user_id = data["user_id"]
                  THEN resp'.body =
                          [user_id |-> TRUE,
                           password |-> ([user_id |-> data["user_id"],
                                          password |-> data["password"]] \in users)]
                  ELSE resp'.body = [user_id |-> FALSE, password |-> FALSE]

C7_LoginAlwaysAnswers200 == [][C7_Step]_vars

\* a login for a user_id that is not stored has just been answered
C7_Witness ==
    /\ resp.tier = "db" /\ resp.op = "login" /\ resp.status = 200
    /\ resp.body = [user_id |-> FALSE, password |-> FALSE]
    /\ users = {}

----------------------------------------------------------------------------
(* C8: a request that omits one required field, its other required fields  *)
(* being present and non-empty, gets a 400 response whose error names that *)
(* field: at the Gateway (send, fetch, edit, delete, with the fields the    *)
(* interface requires of each) and at the Data Service (insert, fetch,     *)
(* update, delete, register, login), whatever the condition of the tier    *)
(* behind the one asked.                                                   *)

\* the response is a 400 that names one of these fields
Names400(r, omitted) ==
    /\ r.status = 400
    /\ \E f \in omitted : f \in r.body.error.fields

\* the payloads that omit exactly one of the fields and fill the others
OmittingOne(payloads, fields) ==
    { d \in payloads : \E f \in fields : f \notin DOMAIN d /\ Filled(d, fields \ {f}) }

BadInserts == OmittingOne(InsertPayloads, SendFields)
BadSends == OmittingOne(SendPayloads, SendFields)
BadFetches == OmittingOne(FetchArgs, FetchFields)
BadEdits == OmittingOne(UpdatePayloads, EditFields)
BadDeletes == OmittingOne(DeletePayloads, DeleteFields)
BadUsers == OmittingOne(UserPayloads, UserFields)

C8_Step ==
    /\ (resp'.tier = "db" /\ resp'.op = "insert") =>
          \A data \in BadInserts, dbUp \in BOOLEAN, dt \in ClockSteps :
              Insert(data, dbUp, dt) => Names400(resp', SendFields \ DOMAIN data)
    /\ (resp'.tier = "db" /\ resp'.op = "fetch") =>
          \A args \in BadFetches, dbUp \in BOOLEAN : \A rows \in Listings(args) :
              Fetch(args, dbUp, rows) => Names400(resp', FetchFields \ DOMAIN args)
    /\ (resp'.tier = "db" /\ resp'.op = "update") =>
          \A data \in BadEdits, dbUp \in BOOLEAN :
              Update(data, dbUp) => Names400(resp', EditFields \ DOMAIN data)
    /\ (resp'.tier = "db" /\ resp'.op = "delete") =>
          \A data \in BadDeletes, dbUp \in BOOLEAN :
              Delete(data, dbUp) => Names400(resp', DeleteFields \ DOMAIN data)
    /\ (resp'.tier = "db" /\ resp'.op = "register") =>
          \A data \in BadUsers, dbUp \in BOOLEAN :
              Register(data, dbUp) => Names400(resp', UserFields \ DOMAIN data)
    /\ (resp'.tier = "db" /\ resp'.op = "login") =>
          \A data \in BadUsers, dbUp \in BOOLEAN :
              Login(data, dbUp) => Names400(resp', UserFields \ DOMAIN data)
    /\ (resp'.tier = "api" /\ resp'.op = "send") =>
          \A data \in BadSends, dsUp \in BOOLEAN, jsonErr \in JsonErrors,
             dbUp \in BOOLEAN, dt \in ClockSteps :
              Send(data, dsUp, jsonErr, dbUp, dt)
              => Names400(resp', SendFields \ DOMAIN data)
    /\ (resp'.tier = "api" /\ resp'.op = "fetch") =>
          \A args \in BadFetches, dsUp \in BOOLEAN, jsonErr \in JsonErrors,
             dbUp \in BOOLEAN : \A rows \in Listings(args) :
              GetMessages(args, dsUp, jsonErr, dbUp, rows)
              => Names400(resp', FetchFields \ DOMAIN args)
    /\ (resp'.tier = "api" /\ resp'.op = "edit") =>
          \A data \in BadEdits, dsUp \in BOOLEAN, jsonErr \in JsonErrors,
             dbUp \in BOOLEAN :
              Edit(data, dsUp, jsonErr, dbUp)
              => Names400(resp', EditFields \ DOMAIN data)
    /\ (resp'.tier = "api" /\ resp'.op = "delete") =>
          \A data \in BadDeletes, dsUp \in BOOLEAN, jsonErr \in JsonErrors,
             dbUp \in BOOLEAN :
              ApiDeleteMessage(data, dsUp, jsonErr, dbUp)
              => Names400(resp', DeleteFields \ DOMAIN data)

C8_OmittedFieldIsNamed == [][C8_Step]_vars

----------------------------------------------------------------------------
(* C9: for every forwarding Gateway operation (send, fetch, edit, delete)  *)
(* whose fields are all present and non-empty, if the Data Service is      *)
(* unreachable the Gateway answers 503.                                    *)

GoodSends == { d \in SendPayloads : Filled(d, SendFields) }
GoodFetches == { d \in FetchArgs : Filled(d, FetchFields) }
GoodEdits == { d \in UpdatePayloads : Filled(d, EditFields) }
GoodDeletes == { d \in DeletePayloads : Filled(d, DeleteFields) }

\* a request is taken when no response is pending
C9_UnreachableServiceIs503 ==
    Idle =>
        /\ \A data \in GoodSends, jsonErr \in JsonErrors,
              dbUp \in BOOLEAN, dt \in ClockSteps :
                send_message(data, FALSE, jsonErr, dbUp, dt).status = 503
        /\ \A args \in GoodFetches, jsonErr \in JsonErrors, dbUp \in BOOLEAN :
              \A rows \in Listings(args) :
                get_messages(args, FALSE, jsonErr, dbUp, rows).status = 503
        /\ \A data \in GoodEdits, jsonErr \in JsonErrors, dbUp \in BOOLEAN :
                edit_message(data, FALSE, jsonErr, dbUp).status = 503
        /\ \A data \in GoodDeletes, jsonErr \in JsonErrors, dbUp \in BOOLEAN :
                api_delete_message(data, FALSE, jsonErr, dbUp).status = 503

\* the Gateway has just answered a delete with 503 while messages are stored
C9_Witness ==
    /\ resp.tier = "api" /\ resp.op = "delete" /\ resp.status = 503
    /\ messages # {}

----------------------------------------------------------------------------
(* C10: an edit sent to the Gateway with non-empty message_id, sender_id   *)
(* and message_text, for a stored message of that sender, reaches the Data *)
(* Service's update and is answered 200 with the message_text changed in   *)
(* the store.  (The Data Service and the store are reachable.)             *)

C10_Step ==
    (resp'.tier = "api" /\ resp'.op = "edit") =>
        \A data \in GoodEdits, jsonErr \in JsonErrors :
            (Owns(data["sender_id"], data["message_id"]) /\ Edit(data, TRUE, jsonErr, TRUE))
            =>  /\ resp'.status = 200
                /\ \E m \in messages' :
                      /\ m.message_id = data["message_id"]
                      /\ m.message_text = data["message_text"]

C10_EditReachesUpdate == [][C10_Step]_vars

----------------------------------------------------------------------------
(* C11: whenever the Gateway forwards a request and the Data Service       *)
(* answers, the Gateway's response has exactly the Data Service's status   *)
(* code and body, for success and for downstream 4xx/5xx alike.            *)

\* the delete payloads that pass the Gateway's check, which is of message_id
ForwardedDeletes == { d \in DeletePayloads : Filled(d, {"message_id"}) }

\* the Gateway's outcome is the Data Service's answer, store included
Relays(out, answer) ==
    /\ out.status = answer.status
    /\ out.body = answer.body
    /\ out.messages = answer.messages

C11_GatewayRelaysAnswer ==
    Idle =>
        \A jsonErr \in JsonErrors, dbUp \in BOOLEAN :
            /\ \A data \in GoodSends, dt \in ClockSteps :
                  Relays(send_message(data, TRUE, jsonErr, dbUp, dt),
                         DownstreamAnswer("POST", "/db/insert",
                                          db_insert_message(data, dbUp, dt)))
            /\ \A args \in GoodFetches : \A rows \in Listings(args) :
                  Relays(get_messages(args, TRUE, jsonErr, dbUp, rows),
                         DownstreamAnswer("GET", "/db/fetch",
                                          db_fetch_messages(args, dbUp, rows)))
            /\ \A data \in ForwardedDeletes :
                  Relays(api_delete_message(data, TRUE, jsonErr, dbUp),
                         DownstreamAnswer("DELETE", "/db/delete",
                                          db_delete_message(data, dbUp)))
            /\ \A data \in GoodEdits :
                  Relays(edit_message(data, TRUE, jsonErr, dbUp),
                         DownstreamAnswer("PUT", "/db/edit",
                                          update_message(data, dbUp)))

----------------------------------------------------------------------------
(* C12: a fetch with both identities present, for a pair of identities     *)
(* with no stored messages between them, returns 200 with an empty message *)
(* list, not a not-found error: at the Data Service, through the Gateway,  *)
(* and from fetch_messages of crud.py.                                     *)

\* the outcome is a success that lists no message
EmptyList(out) ==
    /\ out.status = 200
    /\ "messages" \in DOMAIN out.body
    /\ DOMAIN out.body.messages = {}

C12_EmptyFetchIs200 ==
    Idle =>
        \A args \in GoodFetches :
            LET a == args["sender_id"]
                b == args["receiver_id"]
            IN  /\ Conversation(a, b) = {} =>
                      \A rows \in Listings(args) :
                          /\ EmptyList(db_fetch_messages(args, TRUE, rows))
                          /\ \A jsonErr \in JsonErrors :
                                EmptyList(get_messages(args, TRUE, jsonErr, TRUE, rows))
                /\ LiteConversation(a, b) = {} =>
                      \A rows \in OrderByTimestamp(LiteConversation(a, b)) :
                          EmptyList(crud_fetch_messages(a, b, TRUE, rows))

----------------------------------------------------------------------------
(* C13: of two register requests for the same user_id that run             *)
(* concurrently, in every interleaving of their existence check and insert *)
(* exactly one gets 201 and the other gets the 400 conflict response.      *)

\* both threads have finished a request of this kind, each taken while the
\* row it names was in the state it needed (user absent, message stored)
BothDone(op, key) ==
    /\ \A t \in Threads : At(t, op, "done") /\ thread[t].fresh
    /\ \A t, o \in Threads : thread[o].data[key] = thread[t].data[key]

\* the statuses the threads finished with
Statuses == { thread[t].status : t \in Threads }

\* the threads that finished with this status
With(status) == { t \in Threads : thread[t].status = status }

C13_RegistrationIsAtomic ==
    BothDone("register", "user_id") =>
        /\ Cardinality(With(201)) = 1
        /\ Cardinality(With(400)) = 1

----------------------------------------------------------------------------
(* C14: under any interleaving of concurrent register requests the users   *)
(* table holds at most one row per user_id; a row is stored by the request *)
(* that is answered 201, with that request's password, and no later        *)
(* operation changes or removes it.                                        *)

\* thread t answers 201 to a register request in this step
Registers(t) ==
    /\ thread[t].op = "register" /\ thread[t].pc # "done"
    /\ thread'[t].pc = "done" /\ thread'[t].status = 201

C14_Step ==
    /\ \A u1, u2 \in users' : u1.user_id = u2.user_id => u1 = u2
    /\ users \subseteq users'
    /\ \A row \in users' \ users :
          \E t \in Threads :
              /\ Registers(t)
              /\ thread[t].data = [user_id |-> row.user_id, password |-> row.password]
    /\ \A t \in Threads :
          Registers(t) =>
              [user_id |-> thread[t].data["user_id"],
               password |-> thread[t].data["password"]] \in users' \ users

C14_OneRowPerUser == [][C14_Step]_vars

\* two racing registrations of one user_id with different passwords have
\* both finished, and one row is stored
C14_Witness ==
    /\ BothDone("register", "user_id")
    /\ thread["t1"].data["password"] # thread["t2"].data["password"]
    /\ Cardinality(users) = 1
    /\ 201 \in Statuses

----------------------------------------------------------------------------
(* C15: every message in the store has non-empty sender_id, receiver_id    *)
(* and message_text: the Data Service rejects with 400 an insert or update *)
(* that carries a required field with an empty value, and stores nothing.  *)

C15_StoredFieldsAreNonEmpty ==
    \A m \in messages :
        /\ m.sender_id # ""
        /\ m.receiver_id # ""
        /\ m.message_text # ""

----------------------------------------------------------------------------
(* C16: when the store is unreachable from the Data Service, a valid send, *)
(* fetch, edit or delete made through the Gateway gets a 503 response.     *)

C16_StoreDownIs503 ==
    Idle =>
        \A jsonErr \in JsonErrors :
            /\ \A data \in GoodSends, dt \in ClockSteps :
                  send_message(data, TRUE, jsonErr, FALSE, dt).status = 503
            /\ \A args \in GoodFetches : \A rows \in Listings(args) :
                  get_messages(args, TRUE, jsonErr, FALSE, rows).status = 503
            /\ \A data \in GoodEdits :
                  edit_message(data, TRUE, jsonErr, FALSE).status = 503
            /\ \A data \in GoodDeletes :
                  api_delete_message(data, TRUE, jsonErr, FALSE).status = 503

----------------------------------------------------------------------------
(* C17: a delete request to the Gateway whose sender_id is missing or      *)
(* empty gets a 400 response and removes no message from the store.        *)

\* delete payloads with a message_id and without a usable sender_id
SenderlessDeletes ==
    { d \in DeletePayloads : Filled(d, {"message_id"}) /\ ~Filled(d, {"sender_id"}) }

C17_DeleteNeedsSender ==
    Idle =>
        \A data \in SenderlessDeletes, e \in GatewayEnvs :
            LET out == api_delete_message(data, e.dsUp, e.jsonErr, e.dbUp)
            IN  /\ out.status = 400
                /\ out.messages = messages

----------------------------------------------------------------------------
(* C18: when a required field is missing or empty on a send, fetch, edit   *)
(* or delete, the Gateway answers 400 without sending any request to the   *)
(* Data Service (so the answer is 400 also when the Data Service or the    *)
(* store is down), and the store is unchanged.                             *)

\* the payloads in which one of these fields is missing or empty
Lacking(payloads, fields) == { d \in payloads : ~Filled(d, fields) }

\* the outcome is a 400 that leaves the store as it is
Rejected(out) ==
    /\ out.status = 400
    /\ out.messages = messages
    /\ out.users = users
    /\ out.seq = seq

C18_ValidationFailsFast ==
    Idle =>
        \A e \in GatewayEnvs :
            /\ \A data \in Lacking(SendPayloads, SendFields), dt \in ClockSteps :
                  Rejected(send_message(data, e.dsUp, e.jsonErr, e.dbUp, dt))
            /\ \A args \in Lacking(FetchArgs, FetchFields) : \A rows \in Listings(args) :
                  Rejected(get_messages(args, e.dsUp, e.jsonErr, e.dbUp, rows))
            /\ \A data \in Lacking(UpdatePayloads, EditFields) :
                  Rejected(edit_message(data, e.dsUp, e.jsonErr, e.dbUp))
            /\ \A data \in Lacking(DeletePayloads, DeleteFields) :
                  Rejected(api_delete_message(data, e.dsUp, e.jsonErr, e.dbUp))

----------------------------------------------------------------------------
(* C19: of two concurrent delete requests by the owner for the same stored *)
(* message, in every interleaving exactly one returns 200 and the other    *)
(* returns 404, and the message is absent from the store afterwards.       *)

C19_ConcurrentDeletes ==
    BothDone("delete", "message_id") =>
        /\ Cardinality(With(200)) = 1
        /\ Cardinality(With(404)) = 1
        /\ \A t \in Threads, m \in messages :
              m.message_id # thread[t].data["message_id"]

\* two deletes of one stored message, both taken while it was stored, have
\* both finished, and another message is still stored
C19_Witness ==
    /\ BothDone("delete", "message_id")
    /\ Statuses = {200, 404}
    /\ messages # {}

----------------------------------------------------------------------------
(* C20: every Data Service response caused by an unexpected store failure  *)
(* carries only a generic internal-error message; no endpoint (health and  *)
(* test-connection included, and the functions of crud.py) puts the text   *)
(* of the exception in the response body.                                  *)

\* the messages that tell nothing of the failure
GenericErrors == {"Internal Server Error", "Database error occurred"}

C20_FailuresAreGeneric ==
    (resp.tier \in {"db", "lite"} /\ resp.status = 500) =>
        /\ "error" \in DOMAIN resp.body
        /\ resp.body.error.msg \in GenericErrors

----------------------------------------------------------------------------
(* C21: for any store contents, fetch(A,B) with both identities non-empty  *)
(* returns exactly the stored messages whose (sender_id, receiver_id) is   *)
(* (A,B) or (B,A), no message of any other pair, each with its stored      *)
(* message_id, text and timestamp, in non-decreasing timestamp order: at   *)
(* the Data Service, through the Gateway, and from crud.py.                *)

\* the messages of this table that a and b exchanged
Between(table, a, b) ==
    { m \in table : <<m.sender_id, m.receiver_id>> \in {<<a, b>>, <<b, a>>} }

\* the rows a list of the Data Service's JSON messages stands for
Stored(list) ==
    { [message_id |-> list[i].message_id,
       sender_id |-> list[i].sender_id,
       receiver_id |-> list[i].receiver_id,
       message_text |-> list[i].message_text,
       timestamp |-> list[i].timestamp.iso] : i \in DOMAIN list }

\* the answer lists exactly these rows, each once, in timestamp order
Lists(out, rows) ==
    /\ out.status = 200
    /\ "messages" \in DOMAIN out.body
    /\ Stored(out.body.messages) = rows
    /\ Len(out.body.messages) = Cardinality(rows)
    /\ Ascending(out.body.messages)

\* the same of an answer of crud.py, whose timestamps are the stored text
LiteLists(out, rows) ==
    /\ out.status = 200
    /\ "messages" \in DOMAIN out.body
    /\ Range(out.body.messages) = rows
    /\ Len(out.body.messages) = Cardinality(rows)
    /\ LiteAscending(out.body.messages)

C21_FetchReturnsTheConversation ==
    Idle =>
        \A args \in GoodFetches :
            LET a == args["sender_id"]
                b == args["receiver_id"]
            IN  /\ \A rows \in Listings(args) :
                      /\ Lists(db_fetch_messages(args, TRUE, rows), Between(messages, a, b))
                      /\ \A jsonErr \in JsonErrors :
                            Lists(get_messages(args, TRUE, jsonErr, TRUE, rows),
                                  Between(messages, a, b))
                /\ \A rows \in OrderByTimestamp(LiteConversation(a, b)) :
                      LiteLists(crud_fetch_messages(a, b, TRUE, rows), Between(lite, a, b))

----------------------------------------------------------------------------
(* C22: the set of stored messages changes only through a successful       *)
(* insert, which adds exactly one new message, and a successful delete,    *)
(* which removes exactly one (a successful update rewrites a text and      *)
(* keeps the set of message_ids); login, fetch, health, register and every *)
(* request answered 400, 404 or 500 leave the messages table unchanged,    *)
(* and login, fetch and health leave the users table unchanged too.        *)

\* the message_ids of a table
IdsOf(table) == { m.message_id : m \in table }

\* the request answered in this step, at the Data Service or the Gateway
Answered(ops, statuses) ==
    /\ resp'.tier \in {"db", "api"}
    /\ resp'.op \in ops
    /\ resp'.status \in statuses

\* this step added exactly one message, under an id not stored before
AddsOne ==
    \E m \in messages' :
        /\ m.message_id \notin IdsOf(messages)
        /\ messages' = messages \union {m}

\* this step removed exactly one message
RemovesOne == \E m \in messages : messages' = messages \ {m}

C22_Step ==
    /\ IdsOf(messages') # IdsOf(messages) =>
          \/ Answered({"insert", "send"}, {201})
          \/ Answered({"delete"}, {200})
    /\ messages' # messages =>
          \/ Answered({"insert", "send"}, {201})
          \/ Answered({"delete"}, {200})
          \/ Answered({"update", "edit"}, {200})
    /\ Answered({"insert", "send"}, {201}) => AddsOne
    /\ Answered({"delete"}, {200}) => RemovesOne
    /\ Answered({"login", "fetch", "health", "test-connection", "register"},
                {200, 201, 400, 404, 500, 503})
          => messages' = messages
    /\ Answered({"insert", "send", "update", "edit", "delete"}, {400, 404, 500})
          => messages' = messages
    /\ Answered({"login", "fetch", "health"}, {200, 201, 400, 404, 500, 503})
          => users' = users

C22_MessagesChangeByInsertAndDelete == [][C22_Step]_vars

\* a delete has just removed one of the sender's two stored messages, with
\* a user stored
C22_Witness ==
    /\ resp.tier \in {"db", "api"} /\ resp.op = "delete" /\ resp.status = 200
    /\ \E m \in messages : m.sender_id = "a"
    /\ \E d \in deleted : d \notin IdsOf(messages)
    /\ Cardinality(users) = 1

====
